---- MODULE Spec2Model ----
(***************************************************************************)
(* A model of engine.hpp: the World builder (loadRooms, loadEntities,      *)
(* makeInventory, trackConnections), the graph connector (connectRooms),   *)
(* teardown (destroyWorld), item transfer (addItem/addItems) and the lock  *)
(* resolver (Room::unlock).                                                *)
(*                                                                         *)
(* Pointers are natural numbers: 0 is an empty unique_ptr / shared_ptr,    *)
(* n > 0 is the n-th object allocated on the respective heap (objs for     *)
(* Object/Key, rooms for Room, ents for Entity).                           *)
(***************************************************************************)
EXTENDS Integers, Sequences, FiniteSets, TLC

VARIABLES
    doc,                \* World::story: the sequence of <room> records of the document
    rooms,              \* heap of Room objects
    worldRooms,         \* World::worldRooms: vector of shared_ptr<Room>
    ents,               \* heap of Entity objects
    population,         \* World::population: vector of shared_ptr<Entity>
    objs,               \* heap of Object / Key objects
    roomConnectionMap,  \* World::roomConnectionMap: std::map<int, std::vector<int>>
    hand,               \* items held by the caller: a vector of unique_ptr<Object>
    phase,              \* where the host program is in the World's life
    last                \* the last call made and what it returned

vars == <<doc, rooms, worldRooms, ents, population, objs, roomConnectionMap, hand, phase, last>>

----------------------------------------------------------------------------
(* Bounds of the model *)

MaxRooms == 2      \* <room> records in a document
MaxId == 2         \* ids written in a document are 0 .. MaxId
MaxConns == 2      \* <id> elements in all connections blocks of a document
MaxEnts == 2       \* <entity> elements in a document
MaxObjs == 1       \* <object> elements in one inventory
MaxHeap == 2       \* Object / Key allocations in one run of the host program
MaxHand == 1       \* items the caller constructs itself
MaxUnlocks == 2    \* unlock calls on the items of a World built from a document

----------------------------------------------------------------------------
(* Texts of the document and their conversion *)

\* the decimal texts "0", "1", ... in order: DigitText[n + 1] is the text of n
DigitText == <<"0", "1", "2", "3", "4", "5", "6", "7", "8", "9">>

IntText(n) == DigitText[n + 1]

\* a text that is no integer
NonInteger == "abc"

\* FirstChildElement(tag) found no such child: a null XMLElement*
NoElement == "<no element>"

IsIntText(t) == \E i \in 1..Len(DigitText) : DigitText[i] = t

ToInt(t) == (CHOOSE i \in 1..Len(DigitText) : DigitText[i] = t) - 1

\* XMLElement::QueryIntText(&v) with v preset to dflt: v is written only when the
\* text converts; the error code it returns is dropped by every caller
QueryIntText(t, dflt) == IF IsIntText(t) THEN ToInt(t) ELSE dflt

\* What a call through a null pointer produces: the process dies ("trap"), or the
\* read goes through and yields whatever is there (a text, read as an int by
\* QueryIntText where an int is wanted)
Trap == "trap"

NullReads == {Trap, "?", IntText(1)}

\* the text a read of field t yields when a null dereference yields g
Read(t, g) == IF t = NoElement THEN g ELSE t

----------------------------------------------------------------------------
(* Objects *)

\* Object::Object(n, id, d)
NewObject(n, id, d) ==
    [objectName |-> n, objectDescriptor |-> d, objID |-> id,
     isKey |-> FALSE, keyID |-> 0, live |-> TRUE]

\* Key::Key(kid, n, id, d)
NewKey(kid, n, id, d) ==
    [objectName |-> n, objectDescriptor |-> d, objID |-> id,
     isKey |-> TRUE, keyID |-> kid, live |-> TRUE]

\* Room::Room(n, id, desc): lock(locked), empty population, neighbours, inventory
NewRoom(n, id, desc) ==
    [roomName |-> n, roomID |-> id, description |-> desc, lock |-> "locked",
     roomPopulation |-> <<>>, neighbours |-> <<>>, inventory |-> <<>>, alive |-> TRUE]

\* Entity::Entity(n)
NewEntity(n) == [name |-> n, inventory |-> <<>>, alive |-> TRUE]

\* The World as one value
World ==
    [rooms |-> rooms, worldRooms |-> worldRooms, ents |-> ents,
     population |-> population, objs |-> objs,
     roomConnectionMap |-> roomConnectionMap, status |-> "ok"]

\* World::World(): nothing built
EmptyWorld ==
    [rooms |-> <<>>, worldRooms |-> <<>>, ents |-> <<>>, population |-> <<>>,
     objs |-> <<>>, roomConnectionMap |-> <<>>, status |-> "ok"]

----------------------------------------------------------------------------
(* World Builder *)

\* World::RoomFactory
RoomFactory(w, n, id, desc) ==
    [w EXCEPT !.rooms = Append(@, NewRoom(n, id, desc)),
              !.worldRooms = Append(@, Len(w.rooms) + 1)]

\* World::EntityFactory
EntityFactory(w, n) ==
    [w EXCEPT !.ents = Append(@, NewEntity(n)),
              !.population = Append(@, Len(w.ents) + 1)]

\* an <object>, <room> or <entity> record lacks a child element the loader reads
ObjectLacksField(o) == NoElement \in {o.name, o.description, o.id}

RoomLacksField(r) == NoElement \in {r.name, r.description, r.id}

\* the Object built from one <object> record (make_unique<Object>(objName, id, desc))
ObjectOf(o, g) ==
    NewObject(Read(o.name, g), QueryIntText(Read(o.id, g), 0), Read(o.description, g))

\* Room::addItem on worldRooms.back() of the item just made from record o
\* (one turn of the inner while loop of loadRooms)
LoadRoomObject(w, o, g) ==
    IF w.status # "ok" THEN w
    ELSE IF ObjectLacksField(o) /\ g = Trap THEN [w EXCEPT !.status = "crashed"]
    ELSE LET room == w.worldRooms[Len(w.worldRooms)]
         IN  [w EXCEPT !.objs = Append(@, ObjectOf(o, g)),
                       !.rooms[room].inventory = Append(@, Len(w.objs) + 1)]

RECURSIVE LoadRoomInventory(_, _, _)
LoadRoomInventory(w, os, g) ==
    IF os = <<>> THEN w
    ELSE LoadRoomInventory(LoadRoomObject(w, Head(os), g), Tail(os), g)

\* World::makeInventory: the world with the new objects on its heap, and the
\* returned vector of handles to them
RECURSIVE MakeInventory(_, _, _)
MakeInventory(w, os, g) ==
    IF os = <<>> \/ w.status # "ok" THEN [w |-> w, ret |-> <<>>]
    ELSE IF ObjectLacksField(Head(os)) /\ g = Trap
         THEN [w |-> [w EXCEPT !.status = "crashed"], ret |-> <<>>]
    ELSE LET w1 == [w EXCEPT !.objs = Append(@, ObjectOf(Head(os), g))]
             rest == MakeInventory(w1, Tail(os), g)
         IN  [w |-> rest.w, ret |-> <<Len(w.objs) + 1>> \o rest.ret]

\* World::trackConnections: a text that does not convert leaves nid at 0
RECURSIVE TrackConnections(_)
TrackConnections(conns) ==
    IF conns = <<>> THEN <<>>
    ELSE <<QueryIntText(Head(conns), 0)>> \o TrackConnections(Tail(conns))

\* a map insertion that replaces the entry of a key already present (operator[])
MapInsertOverwriting(m, k, v) == (k :> v) @@ [x \in DOMAIN m \ {k} |-> m[x]]

\* std::map::insert: an entry whose key is already present is not replaced
MapInsert(m, k, v) == IF k \in DOMAIN m THEN m ELSE (k :> v) @@ m

\* Entity::addItem: the handle is moved into the inventory
EntityAddItem(e, i) == [e EXCEPT !.inventory = Append(@, i)]

\* Entity::addItems
RECURSIVE EntityAddItems(_, _)
EntityAddItems(e, is) ==
    IF is = <<>> THEN e ELSE EntityAddItems(EntityAddItem(e, Head(is)), Tail(is))

\* Room::addItem
RoomAddItem(r, i) == [r EXCEPT !.inventory = Append(@, i)]

\* Room::addItems
RECURSIVE RoomAddItems(_, _)
RoomAddItems(r, is) ==
    IF is = <<>> THEN r ELSE RoomAddItems(RoomAddItem(r, Head(is)), Tail(is))

\* Room::addEntity
RoomAddEntity(r, e) == [r EXCEPT !.roomPopulation = Append(@, e)]

\* Room::addNeighbour
RoomAddNeighbour(r, nn) == [r EXCEPT !.neighbours = Append(@, nn)]

\* World::loadEntities: the world after it, and the count it returns
RECURSIVE LoadEntities(_, _, _)
LoadEntities(w, es, g) ==
    IF es = <<>> \/ w.status # "ok" THEN [w |-> w, counter |-> 0]
    ELSE IF Head(es).name = NoElement /\ g = Trap
         THEN [w |-> [w EXCEPT !.status = "crashed"], counter |-> 0]
    ELSE LET inv == MakeInventory(w, Head(es).inventory, g)
         IN  IF inv.w.status # "ok" THEN [w |-> inv.w, counter |-> 0]
             ELSE LET newEnt == NewEntity(Read(Head(es).name, g))
                      w1 == [inv.w EXCEPT
                                !.ents = Append(@, EntityAddItems(newEnt, inv.ret)),
                                !.population = Append(@, Len(inv.w.ents) + 1)]
                      rest == LoadEntities(w1, Tail(es), g)
                  IN  [w |-> rest.w, counter |-> rest.counter + 1]

\* the body of the for loop of loadRooms from index i on: addEntity(population[i])
\* on worldRooms.back()
RECURSIVE AttachFrom(_, _)
AttachFrom(w, i) ==
    IF i > Len(w.population) THEN w
    ELSE LET room == w.worldRooms[Len(w.worldRooms)]
         IN  AttachFrom([w EXCEPT !.rooms[room] = RoomAddEntity(@, w.population[i])],
                        i + 1)

\* the for loop started at the front of the registry instead of at the suffix
AttachEntitiesFromFront(w, entCount) == AttachFrom(w, 1)

\* for (i = population.size() - entCount; i < population.size(); i++) of loadRooms
\* (indices here are one more than the C++ ones)
AttachEntities(w, entCount) == AttachFrom(w, Len(w.population) - entCount + 1)

\* one turn of the outer while loop of loadRooms, for <room> record r
LoadRoom(w, r, g) ==
    IF w.status # "ok" THEN w
    ELSE IF RoomLacksField(r) /\ g = Trap THEN [w EXCEPT !.status = "crashed"]
    ELSE LET roomID == QueryIntText(Read(r.id, g), 0)
             w1 == RoomFactory(w, Read(r.name, g), roomID, Read(r.description, g))
             w2 == LoadRoomInventory(w1, r.inventory, g)
         IN  IF w2.status # "ok" THEN w2
             ELSE LET w3 == [w2 EXCEPT !.roomConnectionMap =
                                MapInsert(@, roomID, TrackConnections(r.connections))]
                      le == LoadEntities(w3, r.entities, g)
                  IN  IF le.w.status # "ok" THEN le.w
                      ELSE AttachEntities(le.w, le.counter)

\* World::loadRooms
RECURSIVE LoadRooms(_, _, _)
LoadRooms(w, rs, g) ==
    IF rs = <<>> THEN w ELSE LoadRooms(LoadRoom(w, Head(rs), g), Tail(rs), g)

----------------------------------------------------------------------------
(* Graph Connector *)

\* std::find_if(worldRooms.begin(), worldRooms.end(), id match): the index of the
\* first room with that id, 0 for worldRooms.end()
RECURSIVE FindFrom(_, _, _)
FindFrom(w, id, i) ==
    IF i > Len(w.worldRooms) THEN 0
    ELSE IF w.rooms[w.worldRooms[i]].roomID = id THEN i
    ELSE FindFrom(w, id, i + 1)

FindRoom(w, id) == FindFrom(w, id, 1)

\* the inner for loop leaving at the first id that matches no room
RECURSIVE ConnectChildrenUntilUnknown(_, _, _)
ConnectChildrenUntilUnknown(w, parentRoom, ids) ==
    IF ids = <<>> \/ FindRoom(w, Head(ids)) = 0 THEN w
    ELSE ConnectChildrenUntilUnknown(
             [w EXCEPT !.rooms[w.worldRooms[parentRoom]] =
                 RoomAddNeighbour(@, w.worldRooms[FindRoom(w, Head(ids))])],
             parentRoom, Tail(ids))

\* the inner for loop of connectRooms: the ids of one map entry, in order
RECURSIVE ConnectChildren(_, _, _)
ConnectChildren(w, parentRoom, ids) ==
    IF ids = <<>> THEN w
    ELSE LET childRoom == FindRoom(w, Head(ids))
             w1 == IF childRoom # 0
                   THEN [w EXCEPT !.rooms[w.worldRooms[parentRoom]] =
                            RoomAddNeighbour(@, w.worldRooms[childRoom])]
                   ELSE w
         IN  ConnectChildren(w1, parentRoom, Tail(ids))

\* the outer for loop of connectRooms over the entries with a key in keys, in the
\* map's order (ascending keys)
RECURSIVE ConnectEntries(_, _)
ConnectEntries(w, keys) ==
    IF keys = {} THEN w
    ELSE LET parentID == CHOOSE k \in keys : \A k2 \in keys : k <= k2
             parentRoom == FindRoom(w, parentID)
             w1 == IF parentRoom # 0
                   THEN ConnectChildren(w, parentRoom, w.roomConnectionMap[parentID])
                   ELSE w
         IN  ConnectEntries(w1, keys \ {parentID})

\* World::connectRooms
ConnectRooms(w) == ConnectEntries(w, DOMAIN w.roomConnectionMap)

----------------------------------------------------------------------------
(* Teardown: shared_ptr reference counts and destructors *)

RECURSIVE Occurrences(_, _)
Occurrences(s, x) ==
    IF s = <<>> THEN 0
    ELSE (IF Head(s) = x THEN 1 ELSE 0) + Occurrences(Tail(s), x)

RECURSIVE SumOver(_, _, _)
SumOver(heap, field, x) ==
    IF heap = <<>> THEN 0
    ELSE Occurrences(Head(heap)[field], x) + SumOver(Tail(heap), field, x)

\* shared_ptr<Room>::use_count: the handles of worldRooms and of every neighbours
\* vector that point to room p
RoomUseCount(w, p) == Occurrences(w.worldRooms, p) + SumOver(w.rooms, "neighbours", p)

\* shared_ptr<Entity>::use_count
EntityUseCount(w, e) ==
    Occurrences(w.population, e) + SumOver(w.rooms, "roomPopulation", e)

\* unique_ptr<Object>::reset on every handle of an inventory: the objects die
RECURSIVE ResetItems(_, _)
ResetItems(w, is) ==
    IF is = <<>> THEN w
    ELSE ResetItems(IF Head(is) = 0 THEN w
                    ELSE [w EXCEPT !.objs[Head(is)].live = FALSE],
                    Tail(is))

\* a handle to entity e has just been dropped: Entity::~Entity runs when it was
\* the last one
ReleaseEntity(w, e) ==
    IF e = 0 \/ ~w.ents[e].alive \/ EntityUseCount(w, e) > 0 THEN w
    ELSE LET w1 == ResetItems(w, w.ents[e].inventory)
         IN  [w1 EXCEPT !.ents[e].alive = FALSE, !.ents[e].inventory = <<>>]

RECURSIVE ReleaseRoom(_, _)
RECURSIVE ResetNeighbours(_, _, _)
RECURSIVE DropPopulation(_, _)

\* the first loop of Room::~Room, from index k on: nit->reset()
ResetNeighbours(w, q, k) ==
    IF k > Len(w.rooms[q].neighbours) THEN w
    ELSE LET n == w.rooms[q].neighbours[k]
             w1 == [w EXCEPT !.rooms[q].neighbours[k] = 0]
         IN  ResetNeighbours(ReleaseRoom(w1, n), q, k + 1)

\* the destruction of the member roomPopulation after the body of Room::~Room
DropPopulation(w, q) ==
    IF w.rooms[q].roomPopulation = <<>> THEN w
    ELSE LET e == Head(w.rooms[q].roomPopulation)
             w1 == [w EXCEPT !.rooms[q].roomPopulation = Tail(@)]
         IN  DropPopulation(ReleaseEntity(w1, e), q)

\* a handle to room p has just been dropped: Room::~Room runs when it was the
\* last one
ReleaseRoom(w, p) ==
    IF p = 0 \/ ~w.rooms[p].alive \/ RoomUseCount(w, p) > 0 THEN w
    ELSE LET w1 == [w EXCEPT !.rooms[p].alive = FALSE]
             w2 == ResetNeighbours(w1, p, 1)
             w3 == ResetItems(w2, w2.rooms[p].inventory)
             w4 == [w3 EXCEPT !.rooms[p].inventory = <<>>]
         IN  DropPopulation(w4, p)

\* the first loop of destroyWorld, from index i on: it->reset()
RECURSIVE ResetWorldRooms(_, _)
ResetWorldRooms(w, i) ==
    IF i > Len(w.worldRooms) THEN w
    ELSE LET p == w.worldRooms[i]
             w1 == [w EXCEPT !.worldRooms[i] = 0]
         IN  ResetWorldRooms(ReleaseRoom(w1, p), i + 1)

\* the second loop of destroyWorld, from index i on
RECURSIVE ResetPopulation(_, _)
ResetPopulation(w, i) ==
    IF i > Len(w.population) THEN w
    ELSE LET e == w.population[i]
             w1 == [w EXCEPT !.population[i] = 0]
         IN  ResetPopulation(ReleaseEntity(w1, e), i + 1)

\* World::destroyWorld
DestroyWorld(w) == ResetPopulation(ResetWorldRooms(w, 1), 1)

----------------------------------------------------------------------------
(* Item handles and the Lock Resolver *)

\* Room::setLock
SetLock(r, stat) == [r EXCEPT !.lock = stat]

\* The handle a call is given by reference: an element of the caller's own
\* vector, of a room's inventory (getItems()) or of an entity's (getInventory()).
\* loc = [kind, owner, idx]
Slot(w, h, loc) ==
    CASE loc.kind = "hand" -> h[loc.idx]
      [] loc.kind = "room" -> w.rooms[loc.owner].inventory[loc.idx]
      [] loc.kind = "ent" -> w.ents[loc.owner].inventory[loc.idx]

\* the world and the caller's vector after the handle at loc is set to v
SetSlot(w, h, loc, v) ==
    CASE loc.kind = "hand" -> [w |-> w, hand |-> [h EXCEPT ![loc.idx] = v]]
      [] loc.kind = "room" ->
            [w |-> [w EXCEPT !.rooms[loc.owner].inventory[loc.idx] = v], hand |-> h]
      [] loc.kind = "ent" ->
            [w |-> [w EXCEPT !.ents[loc.owner].inventory[loc.idx] = v], hand |-> h]

\* a test of the handle in place of the test of the cast: any item passes
IsAnyItem(w, p) == p # 0

\* dynamic_cast<Key*>(p) != nullptr
IsKey(w, p) == p # 0 /\ w.objs[p].isKey

\* an unlock that sets the lock before it looks at the key
UnlockSettingLockFirst(w, h, loc, r, trap, gi) ==
    LET k == Slot(w, h, loc)
        released == SetSlot([w EXCEPT !.rooms[r] = SetLock(@, "unlocked")], h, loc, 0)
    IN  IF trap
        THEN [w |-> [released.w EXCEPT !.status = "crashed"],
              hand |-> released.hand, result |-> "crash"]
        ELSE IF IsKey(w, k) /\ gi = w.rooms[r].roomID
        THEN [w |-> [released.w EXCEPT !.objs[k].live = FALSE],
              hand |-> released.hand, result |-> "true"]
        ELSE LET copy == IF IsKey(w, k)
                         THEN NewObject(w.objs[k].objectName, w.objs[k].objID,
                                        w.objs[k].objectDescriptor)
                         ELSE NewObject("?", gi, "?")
                 st == SetSlot([released.w EXCEPT !.objs = Append(@, copy)],
                               released.hand, loc, Len(w.objs) + 1)
             IN  [w |-> st.w, hand |-> st.hand, result |-> "false"]

\* Room::unlock(item& k, node r), k the handle at loc and r a room.
\*   k2r = dynamic_cast<Key*>(k.release())  empties k
\*   k2r != nullptr && k->getID() == r->getID()  reads through the emptied k
\*   make_unique<Object>(*o)  reads through o, null when k2r is
\* Both reads go through a null pointer: the call dies (trap), or the read
\* yields some int gi (for a Key, in place of getID(); for the copy of *o, as
\* the fields of the copy).
Unlock(w, h, loc, r, trap, gi) ==
    LET k == Slot(w, h, loc)
        released == SetSlot(w, h, loc, 0)
    IN  IF trap
        THEN [w |-> [released.w EXCEPT !.status = "crashed"],
              hand |-> released.hand, result |-> "crash"]
        ELSE IF IsKey(w, k) /\ gi = w.rooms[r].roomID
        THEN [w |-> [released.w EXCEPT !.rooms[r] = SetLock(@, "unlocked"),
                                       !.objs[k].live = FALSE],
              hand |-> released.hand, result |-> "true"]
        ELSE LET copy == IF IsKey(w, k)
                         THEN NewObject(w.objs[k].objectName, w.objs[k].objID,
                                        w.objs[k].objectDescriptor)
                         ELSE NewObject("?", gi, "?")
                 st == SetSlot([released.w EXCEPT !.objs = Append(@, copy)],
                               released.hand, loc, Len(w.objs) + 1)
             IN  [w |-> st.w, hand |-> st.hand, result |-> "false"]

\* the handles of a vector after every one of them has been moved from
MovedFrom(is) == [i \in 1..Len(is) |-> 0]

----------------------------------------------------------------------------
(* Story documents *)

IdTexts == {IntText(n) : n \in 0..MaxId}

\* the ways to hand k child elements, in document order, to n parents
Owners(k, n) == {o \in [1..k -> 1..n] : \A j \in 1..(k - 1) : o[j] <= o[j + 1]}

\* the elements of val that belong to parent i
RECURSIVE Pick(_, _, _)
Pick(owner, val, i) ==
    IF val = <<>> THEN <<>>
    ELSE (IF Head(owner) = i THEN <<Head(val)>> ELSE <<>>)
         \o Pick(Tail(owner), Tail(val), i)

ObjectRecord(j) == [name |-> "lamp", description |-> "a lamp", id |-> IntText(j)]

InventoryRecord(n) == [j \in 1..n |-> ObjectRecord(j)]

EntityRecord(n) == [name |-> "npc", inventory |-> InventoryRecord(n)]

\* documents of n rooms with any ids and k connection ids in all, nothing else
GraphDoc(n, ids, owner, val) ==
    [i \in 1..n |->
        [name |-> "room", description |-> "a room", id |-> ids[i],
         inventory |-> <<>>, connections |-> Pick(owner, val, i), entities |-> <<>>]]

\* doc is such a document of at most MaxRooms rooms and MaxConns connection ids
DocIsGraphDoc ==
    \E n \in 0..MaxRooms, k \in 0..MaxConns :
        \E ids \in [1..n -> IdTexts], owner \in Owners(k, n), val \in [1..k -> IdTexts] :
            doc = GraphDoc(n, ids, owner, val)

\* documents of n rooms with ids 1..n, connected in a ring or not at all, with e
\* entities in all and inventories of any size up to MaxObjs
PeopleDoc(n, ring, eowner, einv, rinv) ==
    [i \in 1..n |->
        [name |-> "room", description |-> "a room", id |-> IntText(i),
         inventory |-> InventoryRecord(rinv[i]),
         connections |-> IF ring THEN <<IntText((i % n) + 1)>> ELSE <<>>,
         entities |-> Pick(eowner, [j \in DOMAIN einv |-> EntityRecord(einv[j])], i)]]

\* doc is such a document of at most MaxRooms rooms and MaxEnts entities
DocIsPeopleDoc ==
    \E n \in 1..MaxRooms, e \in 0..MaxEnts :
        \E ring \in BOOLEAN, eowner \in Owners(e, n),
           einv \in [1..e -> 0..MaxObjs], rinv \in [1..n -> 0..MaxObjs] :
            doc = PeopleDoc(n, ring, eowner, einv, rinv)

\* documents whose rooms hold one object and one entity with one object, each
\* room with at most one defect: a child element that is absent, or an id that
\* is no integer
NoDefect == [part |-> "none", field |-> "id", text |-> NonInteger]

BadIdDefects ==
    {[part |-> p, field |-> "id", text |-> NonInteger] :
        p \in {"room", "object", "entobject"}}

AbsentDefects ==
    {[part |-> p, field |-> f, text |-> NoElement] :
        p \in {"room", "object", "entobject"}, f \in {"name", "description", "id"}}
    \cup {[part |-> "entity", field |-> "name", text |-> NoElement]}

Defects == {NoDefect} \cup BadIdDefects \cup AbsentDefects

Spoil(rec, d, part) == IF d.part = part THEN [rec EXCEPT ![d.field] = d.text] ELSE rec

DefectRoom(i, d) ==
    Spoil([name |-> "room", description |-> "a room", id |-> IntText(i),
           inventory |-> <<Spoil(ObjectRecord(1), d, "object")>>,
           connections |-> <<>>,
           entities |-> <<Spoil([name |-> "npc",
                                 inventory |-> <<Spoil(ObjectRecord(1), d, "entobject")>>],
                                d, "entity")>>],
          d, "room")

\* doc is such a document of at most MaxRooms rooms, all its defects being ids
\* that are no integers
DocIsBadIdDoc ==
    \E n \in 1..MaxRooms :
        \E ds \in [1..n -> BadIdDefects] : doc = [i \in 1..n |-> DefectRoom(i, ds[i])]

\* doc is such a document of at most MaxRooms rooms
DocIsDefectDoc ==
    \E n \in 1..MaxRooms :
        \E ds \in [1..n -> Defects] : doc = [i \in 1..n |-> DefectRoom(i, ds[i])]

\* every child element the loader reads is there and every id is an integer
ObjectWellFormed(o) == ~ObjectLacksField(o) /\ IsIntText(o.id)

WellFormed(d) ==
    \A i \in 1..Len(d) :
        /\ ~RoomLacksField(d[i]) /\ IsIntText(d[i].id)
        /\ \A j \in 1..Len(d[i].inventory) : ObjectWellFormed(d[i].inventory[j])
        /\ \A j \in 1..Len(d[i].connections) : IsIntText(d[i].connections[j])
        /\ \A j \in 1..Len(d[i].entities) :
              /\ d[i].entities[j].name # NoElement
              /\ \A k \in 1..Len(d[i].entities[j].inventory) :
                    ObjectWellFormed(d[i].entities[j].inventory[k])

----------------------------------------------------------------------------
(* The host program that builds a World from a document and tears it down *)

NoCall == [op |-> "none", result |-> "none", k |-> 0, room |-> 0,
           loc |-> [kind |-> "hand", owner |-> 0, idx |-> 0]]

Called(op) == [NoCall EXCEPT !.op = op]

SetWorld(w) ==
    /\ rooms' = w.rooms
    /\ worldRooms' = w.worldRooms
    /\ ents' = w.ents
    /\ population' = w.population
    /\ objs' = w.objs
    /\ roomConnectionMap' = w.roomConnectionMap

InitBuild ==
    /\ DocIsBadIdDoc \/ DocIsDefectDoc \/ DocIsGraphDoc \/ DocIsPeopleDoc
    /\ rooms = <<>> /\ worldRooms = <<>> /\ ents = <<>> /\ population = <<>>
    /\ objs = <<>> /\ roomConnectionMap = <<>>
    /\ hand = <<>>
    /\ phase = "new"
    /\ last = NoCall

\* loadRooms(story.FirstChildElement("world")->FirstChildElement("room"))
CallLoadRooms ==
    /\ phase = "new"
    /\ \E g \in NullReads :
          LET w == LoadRooms(World, doc, g)
          IN  /\ SetWorld(w)
              /\ phase' = IF w.status = "ok" THEN "loaded" ELSE "crashed"
    /\ last' = Called("loadRooms")
    /\ UNCHANGED <<doc, hand>>

\* connectRooms(), once, after loadRooms
CallConnectRooms ==
    /\ phase = "loaded"
    /\ SetWorld(ConnectRooms(World))
    /\ phase' = "connected"
    /\ last' = Called("connectRooms")
    /\ UNCHANGED <<doc, hand>>

\* World::initWorld: loadRooms, then connectRooms
CallInitWorld ==
    /\ phase = "new"
    /\ \E g \in NullReads :
          LET w == LoadRooms(World, doc, g)
          IN  IF w.status = "ok"
              THEN SetWorld(ConnectRooms(w)) /\ phase' = "connected"
              ELSE SetWorld(w) /\ phase' = "crashed"
    /\ last' = Called("initWorld")
    /\ UNCHANGED <<doc, hand>>

\* destroyWorld(), once, on a built World
CallDestroyWorld ==
    /\ phase \in {"loaded", "connected"}
    /\ SetWorld(DestroyWorld(World))
    /\ phase' = "destroyed"
    /\ last' = Called("destroyWorld")
    /\ UNCHANGED <<doc, hand>>

NextBuild ==
    \/ CallLoadRooms
    \/ CallConnectRooms
    \/ CallInitWorld
    \/ CallDestroyWorld

SpecBuild == InitBuild /\ [][NextBuild]_vars

----------------------------------------------------------------------------
(* The host program that builds a World by hand and uses the public interface *)

\* the rooms the host creates, in order: the Entrance (id 1) and the Vault (id 2)
RoomSpecs == <<[name |-> "Entrance", id |-> 1], [name |-> "Vault", id |-> 2]>>

\* ids the host gives to the items and keys it makes: those of its rooms
HostIds == {RoomSpecs[i].id : i \in 1..Len(RoomSpecs)}

\* ints a read through a null pointer may yield: no room's id, or some room's
NullInts == {0} \cup HostIds

\* the handles a call can be given: the caller's own and those of the inventories
HandLocs == {[kind |-> "hand", owner |-> 0, idx |-> i] : i \in 1..Len(hand)}

RoomLocs ==
    UNION {{[kind |-> "room", owner |-> p, idx |-> i] : i \in 1..Len(rooms[p].inventory)} :
              p \in 1..Len(rooms)}

EntLocs ==
    UNION {{[kind |-> "ent", owner |-> e, idx |-> i] : i \in 1..Len(ents[e].inventory)} :
              e \in 1..Len(ents)}

\* the rooms the World still holds a handle to
LiveRooms == {worldRooms[i] : i \in 1..Len(worldRooms)} \ {0}

Init ==
    /\ doc = <<>>
    /\ rooms = <<>> /\ worldRooms = <<>> /\ ents = <<>> /\ population = <<>>
    /\ objs = <<>> /\ roomConnectionMap = <<>>
    /\ hand = <<>>
    /\ phase = "ready"
    /\ last = NoCall

CallRoomFactory ==
    /\ phase = "ready"
    /\ Len(rooms) < Len(RoomSpecs)
    /\ LET r == RoomSpecs[Len(rooms) + 1]
       IN  SetWorld(RoomFactory(World, r.name, r.id, "a room"))
    /\ last' = Called("RoomFactory")
    /\ UNCHANGED <<doc, hand, phase>>

CallEntityFactory ==
    /\ phase = "ready"
    /\ Len(ents) < 1
    /\ SetWorld(EntityFactory(World, "npc"))
    /\ last' = Called("EntityFactory")
    /\ UNCHANGED <<doc, hand, phase>>

\* the host makes an Object and keeps the handle: std::make_unique<Object>(n, id, d)
MakeObject ==
    /\ phase = "ready"
    /\ Len(hand) < MaxHand /\ Len(objs) < MaxHeap
    /\ \E id \in HostIds :
          /\ objs' = Append(objs, NewObject("lamp", id, "a lamp"))
          /\ hand' = Append(hand, Len(objs) + 1)
    /\ last' = Called("Object")
    /\ UNCHANGED <<doc, rooms, worldRooms, ents, population, roomConnectionMap, phase>>

\* the host makes a Key and keeps the handle: std::make_unique<Key>(kid, n, id, d)
MakeKey ==
    /\ phase = "ready"
    /\ Len(hand) < MaxHand /\ Len(objs) < MaxHeap
    /\ \E kid \in HostIds, id \in HostIds :
          /\ objs' = Append(objs, NewKey(kid, "card", id, "a key card"))
          /\ hand' = Append(hand, Len(objs) + 1)
    /\ last' = Called("Key")
    /\ UNCHANGED <<doc, rooms, worldRooms, ents, population, roomConnectionMap, phase>>

\* makeInventory(invEle) on an <inventory> of n objects; the host keeps the vector
CallMakeInventory ==
    /\ phase = "ready"
    /\ \E n \in 1..MaxObjs :
          /\ Len(hand) + n <= MaxHand /\ Len(objs) + n <= MaxHeap
          /\ LET inv == MakeInventory(World, InventoryRecord(n), Trap)
             IN  SetWorld(inv.w) /\ hand' = hand \o inv.ret
    /\ last' = Called("makeInventory")
    /\ UNCHANGED <<doc, phase>>

\* room->addItem(hand[i]), of a handle that holds an item
CallRoomAddItem ==
    /\ phase = "ready"
    /\ \E p \in LiveRooms, i \in 1..Len(hand) :
          /\ hand[i] # 0
          /\ rooms' = [rooms EXCEPT ![p] = RoomAddItem(@, hand[i])]
          /\ hand' = [hand EXCEPT ![i] = 0]
    /\ last' = Called("Room::addItem")
    /\ UNCHANGED <<doc, worldRooms, ents, population, objs, roomConnectionMap, phase>>

\* room->addItems(hand), of a vector that holds an item
CallRoomAddItems ==
    /\ phase = "ready"
    /\ \E i \in 1..Len(hand) : hand[i] # 0
    /\ \E p \in LiveRooms :
          /\ rooms' = [rooms EXCEPT ![p] = RoomAddItems(@, hand)]
          /\ hand' = MovedFrom(hand)
    /\ last' = Called("Room::addItems")
    /\ UNCHANGED <<doc, worldRooms, ents, population, objs, roomConnectionMap, phase>>

\* entity->addItem(hand[i]), of a handle that holds an item
CallEntityAddItem ==
    /\ phase = "ready"
    /\ \E e \in 1..Len(ents), i \in 1..Len(hand) :
          /\ hand[i] # 0
          /\ ents' = [ents EXCEPT ![e] = EntityAddItem(@, hand[i])]
          /\ hand' = [hand EXCEPT ![i] = 0]
    /\ last' = Called("Entity::addItem")
    /\ UNCHANGED <<doc, rooms, worldRooms, population, objs, roomConnectionMap, phase>>

\* entity->addItems(hand), of a vector that holds an item
CallEntityAddItems ==
    /\ phase = "ready"
    /\ \E i \in 1..Len(hand) : hand[i] # 0
    /\ \E e \in 1..Len(ents) :
          /\ ents' = [ents EXCEPT ![e] = EntityAddItems(@, hand)]
          /\ hand' = MovedFrom(hand)
    /\ last' = Called("Entity::addItems")
    /\ UNCHANGED <<doc, rooms, worldRooms, population, objs, roomConnectionMap, phase>>

\* Room::unlock(k, r) on the handle at loc
UnlockAt(loc, r) ==
    \E trap \in BOOLEAN, gi \in NullInts :
        LET u == Unlock(World, hand, loc, r, trap, gi)
        IN  /\ SetWorld(u.w)
            /\ hand' = u.hand
            /\ phase' = IF u.result = "crash" THEN "crashed" ELSE phase
            /\ last' = [op |-> "unlock", result |-> u.result,
                        k |-> Slot(World, hand, loc), room |-> r, loc |-> loc]
            /\ UNCHANGED doc

\* Room::unlock on any non-empty handle, the caller's or an inventory's
CallUnlock ==
    /\ phase = "ready"
    /\ Len(objs) < MaxHeap
    /\ \E loc \in HandLocs \cup RoomLocs \cup EntLocs, r \in LiveRooms :
          Slot(World, hand, loc) # 0 /\ UnlockAt(loc, r)

\* room->setLock(stat)
CallSetLock ==
    /\ phase = "ready"
    /\ \E p \in LiveRooms, stat \in {"locked", "unlocked"} :
          /\ rooms' = [rooms EXCEPT ![p] = SetLock(@, stat)]
          /\ last' = [Called("setLock") EXCEPT !.room = p]
    /\ UNCHANGED <<doc, worldRooms, ents, population, objs, roomConnectionMap, hand, phase>>

Next ==
    \/ CallRoomFactory
    \/ CallEntityFactory
    \/ MakeObject
    \/ MakeKey
    \/ CallMakeInventory
    \/ CallRoomAddItem
    \/ CallRoomAddItems
    \/ CallEntityAddItem
    \/ CallEntityAddItems
    \/ CallUnlock
    \/ CallSetLock

Spec == Init /\ [][Next]_vars

----------------------------------------------------------------------------
(* The host program that builds a World from a document and tries its items
   on its rooms *)

\* two rooms, ids 1 and 2, in a ring or unconnected; an object in the first
\* room; an entity, in either room, with an object
ScenarioDocs ==
    {PeopleDoc(Len(RoomSpecs), ring, <<o>>, <<1>>, [i \in 1..Len(RoomSpecs) |-> 2 - i]) :
        ring \in BOOLEAN, o \in 1..Len(RoomSpecs)}

RECURSIVE SumLen(_)
SumLen(s) == IF s = <<>> THEN 0 ELSE Len(Head(s).inventory) + SumLen(Tail(s))

\* the <object> elements of a document
RECURSIVE ObjectsIn(_)
ObjectsIn(d) ==
    IF d = <<>> THEN 0
    ELSE Len(Head(d).inventory) + SumLen(Head(d).entities) + ObjectsIn(Tail(d))

InitWorld ==
    /\ doc \in ScenarioDocs
    /\ rooms = <<>> /\ worldRooms = <<>> /\ ents = <<>> /\ population = <<>>
    /\ objs = <<>> /\ roomConnectionMap = <<>>
    /\ hand = <<>>
    /\ phase = "new"
    /\ last = NoCall

\* Room::unlock(k, r) with k a handle of an inventory of the World
CallUnlockOwn ==
    /\ phase = "connected"
    /\ Len(objs) < ObjectsIn(doc) + MaxUnlocks
    /\ \E loc \in RoomLocs \cup EntLocs, r \in LiveRooms :
          Slot(World, hand, loc) # 0 /\ UnlockAt(loc, r)

NextWorld ==
    \/ CallInitWorld
    \/ CallUnlockOwn

SpecWorld == InitWorld /\ [][NextWorld]_vars

----------------------------------------------------------------------------
(* Properties of the built World *)

Range(s) == {s[i] : i \in 1..Len(s)}

Built == phase \in {"loaded", "connected"}

\* the ids written in the connections block of a record, as numbers, in order
ListedIds(r) == [j \in 1..Len(r.connections) |-> ToInt(r.connections[j])]

\* the room built from the i-th record
RoomAt(i) == rooms[worldRooms[i]]

\* the first record of the document that carries the id of record i
FirstWithId(i) == CHOOSE j \in 1..i : doc[j].id = doc[i].id /\ \A k \in 1..(j - 1) : doc[k].id # doc[i].id

UniqueRoomIds == \A i, j \in 1..Len(worldRooms) : i # j => RoomAt(i).roomID # RoomAt(j).roomID

\* C7 as stated: after loadRooms over well-formed records, repeated ids included,
\* every room has the id of its record, and the connection map holds under that
\* id exactly the ids listed in the room's own connections block, in order.
C7_OwnConnectionsRecorded ==
    (Built /\ WellFormed(doc)) =>
        /\ Len(worldRooms) = Len(doc)
        /\ \A i \in 1..Len(doc) :
              /\ RoomAt(i).roomID = ToInt(doc[i].id)
              /\ RoomAt(i).roomID \in DOMAIN roomConnectionMap
              /\ roomConnectionMap[RoomAt(i).roomID] = ListedIds(doc[i])

\* C7 amended: after loadRooms over well-formed records every room has the id of
\* its record, and the connection map holds under that id exactly the ids listed,
\* in order, in the connections block of the first record that carries the id
\* (the room's own block when no earlier record repeats its id).
C7_FirstConnectionsRecorded ==
    (Built /\ WellFormed(doc)) =>
        /\ Len(worldRooms) = Len(doc)
        /\ \A i \in 1..Len(doc) :
              /\ RoomAt(i).roomID = ToInt(doc[i].id)
              /\ RoomAt(i).roomID \in DOMAIN roomConnectionMap
              /\ roomConnectionMap[RoomAt(i).roomID] = ListedIds(doc[FirstWithId(i)])

\* two records repeat an id and list different connections, one of them two ids
C7_Witness ==
    /\ phase = "loaded" /\ WellFormed(doc) /\ Len(doc) = 2
    /\ doc[1].id = doc[2].id
    /\ Len(doc[1].connections) = 2 /\ doc[1].connections[1] # doc[1].connections[2]
    /\ doc[2].connections = <<>>

Connected == phase = "connected" /\ last.op \in {"connectRooms", "initWorld"}

\* P's neighbours hold N exactly when N's id is listed in P's connections block
EdgesAsListed ==
    \A p, n \in 1..Len(worldRooms) :
        (worldRooms[n] \in Range(RoomAt(p).neighbours))
            <=> (RoomAt(n).roomID \in Range(ListedIds(doc[p])))

\* C2 as stated: after loadRooms and one connectRooms, for every pair of rooms P
\* and N, P's neighbours contain N iff N's id is listed in P's connections block;
\* ids that match no room add no edge and stop nothing; no reverse edge.
C2_EdgesAsListed == Connected => EdgesAsListed

\* C2 amended: the same, for documents whose rooms have pairwise distinct ids.
C2_EdgesAsListedUniqueIds == (Connected /\ UniqueRoomIds) => EdgesAsListed

\* the first room lists an id no room has and then the id of the second room,
\* which comes later in the document and lists nothing
C2_Witness ==
    /\ Connected /\ UniqueRoomIds /\ Len(doc) = 2
    /\ Len(doc[1].connections) = 2
    /\ FindRoom(World, ToInt(doc[1].connections[1])) = 0
    /\ doc[1].connections[2] = doc[2].id
    /\ RoomAt(1).neighbours = <<worldRooms[2]>>
    /\ RoomAt(2).neighbours = <<>>

\* the number of <entity> elements of the records before record i
RECURSIVE EntitiesBefore(_)
EntitiesBefore(i) == IF i <= 1 THEN 0 ELSE EntitiesBefore(i - 1) + Len(doc[i - 1].entities)

\* C8: after loadRooms every entity of a room record is in the World's population
\* and in that room's population and in no other room's: each room's population
\* is exactly the part of the registry its own entity elements appended, in
\* document order, also when some rooms have no entity.
C8_PopulationIsOwnSuffix ==
    Built =>
        /\ Len(population) = EntitiesBefore(Len(doc) + 1)
        /\ \A e \in 1..Len(population) : population[e] = e /\ ents[e].alive
        /\ \A i \in 1..Len(doc) :
              /\ RoomAt(i).roomPopulation =
                    [k \in 1..Len(doc[i].entities) |-> population[EntitiesBefore(i) + k]]
              /\ \A k \in 1..Len(doc[i].entities) :
                    Len(ents[population[EntitiesBefore(i) + k]].inventory)
                        = Len(doc[i].entities[k].inventory)

\* a room with entities is followed by a room without any
C8_Witness ==
    /\ phase = "loaded" /\ Len(doc) = 2
    /\ Len(doc[1].entities) >= 1 /\ doc[2].entities = <<>>
    /\ RoomAt(2).roomPopulation = <<>>
    /\ Len(RoomAt(1).roomPopulation) = Len(population)

\* C3: a record that lacks a required field or has a non-integer id ends the
\* whole load in a fatal error; the builder never goes on past it.
C3_MalformedLoadIsFatal == ~WellFormed(doc) => phase \in {"new", "crashed"}

\* C5: after destroyWorld every room, entity and item is destroyed, whatever the
\* connections (reciprocal, cyclic, self-referencing).
C5_EverythingDestroyed ==
    phase = "destroyed" =>
        /\ \A p \in 1..Len(rooms) : ~rooms[p].alive
        /\ \A e \in 1..Len(ents) : ~ents[e].alive
        /\ \A o \in 1..Len(objs) : ~objs[o].live

----------------------------------------------------------------------------
(* Properties of the Lock Resolver and of item ownership *)

\* the item is a Key whose unlock id is the room's id
MatchingKey(o, r) == o.isKey /\ o.keyID = r.roomID

\* C1: unlock reports success iff the candidate is a Key whose keyID (not its
\* own id) equals the target room's id, and failure in every other case.
C1_SuccessIffMatchingKey ==
    (last.op = "unlock") =>
        (last.result = "true" <=> MatchingKey(objs[last.k], rooms[last.room]))

\* the handles that hold object o
Holders(o) ==
    Occurrences(hand, o) + SumOver(rooms, "inventory", o) + SumOver(ents, "inventory", o)

\* C4: in every reachable state each live item is held by exactly one holder (a
\* room inventory, an entity inventory or a caller handle), and an item that
\* was destroyed by none.
C4_ExclusiveOwnership ==
    \A o \in 1..Len(objs) : Holders(o) = (IF objs[o].live THEN 1 ELSE 0)

\* the lock, population and neighbours of every room, and its inventory but for
\* the handle at loc, are in the next state what they are in this one
RoomsUntouched(loc) ==
    /\ Len(rooms') = Len(rooms)
    /\ \A p \in 1..Len(rooms) :
          /\ rooms'[p].lock = rooms[p].lock
          /\ rooms'[p].roomPopulation = rooms[p].roomPopulation
          /\ rooms'[p].neighbours = rooms[p].neighbours
          /\ Len(rooms'[p].inventory) = Len(rooms[p].inventory)
          /\ \A i \in 1..Len(rooms[p].inventory) :
                (loc.kind = "room" /\ loc.owner = p /\ loc.idx = i)
                    \/ rooms'[p].inventory[i] = rooms[p].inventory[i]

\* the handle at loc holds, in the next state, a live Plain item with the name,
\* description and id of object k
HandedBack(loc, k) ==
    LET n == Slot([rooms |-> rooms', ents |-> ents'], hand', loc)
    IN  /\ n # 0
        /\ objs'[n].live /\ ~objs'[n].isKey
        /\ objs'[n].objectName = objs[k].objectName
        /\ objs'[n].objectDescriptor = objs[k].objectDescriptor
        /\ objs'[n].objID = objs[k].objID

\* C9: an unlock whose candidate is a Plain item, or a Key whose unlock id is not
\* the room's id, ends normally with result false, leaves in the caller's handle
\* a Plain item with the candidate's name, description and id, and changes no
\* room.
C9_FailureHandsItemBack ==
    [][(last'.op = "unlock" /\ ~MatchingKey(objs[last'.k], rooms[last'.room])) =>
          /\ last'.result = "false"
          /\ phase' # "crashed"
          /\ HandedBack(last'.loc, last'.k)
          /\ RoomsUntouched(last'.loc)]_vars

\* a room is locked when it is made
MadeLocked == \A p \in (Len(rooms) + 1)..Len(rooms') : rooms'[p].lock = "locked"

\* this step unlocks room p by a successful unlock that targets it
UnlockedByKey(p) ==
    /\ rooms[p].lock = "locked" /\ rooms'[p].lock = "unlocked"
    /\ last'.op = "unlock" /\ last'.result = "true" /\ last'.room = p

\* C6 as stated: every room is Locked when created; over any sequence of calls of
\* the public interface a lock changes only from Locked to Unlocked, by a
\* successful unlock that targets the room; nothing locks a room again.
C6_LockOnlyOpensByKey ==
    [][/\ MadeLocked
       /\ \A p \in 1..Len(rooms) :
             rooms'[p].lock # rooms[p].lock => UnlockedByKey(p)]_vars

\* C6 amended: every room is Locked when created; a lock changes only by a
\* successful unlock that targets the room (Locked to Unlocked) or by a direct
\* call of the public Room::setLock on that room, which sets either state and so
\* can lock a room again; a failed unlock leaves every lock as it is.
C6_LockChangesByKeyOrSetLock ==
    [][/\ MadeLocked
       /\ \A p \in 1..Len(rooms) :
             rooms'[p].lock # rooms[p].lock =>
                 \/ UnlockedByKey(p)
                 \/ last'.op = "setLock" /\ last'.room = p]_vars

\* a Key has just unlocked the Vault while the Entrance stays locked
C6_Witness ==
    /\ last.op = "unlock" /\ last.result = "true"
    /\ Len(rooms) = 2
    /\ rooms[last.room].lock = "unlocked"
    /\ \E p \in 1..Len(rooms) : p # last.room /\ rooms[p].lock = "locked"

\* C10: every item the World Builder puts into an inventory is Plain, never a
\* Key; so in a World built by initWorld every room is still Locked after any
\* sequence of unlock calls on the World's own items.
C10_BuiltItemsPlainRoomsLocked ==
    /\ \A o \in 1..Len(objs) : ~objs[o].isKey
    /\ \A p \in 1..Len(rooms) : rooms[p].lock = "locked"

\* an unlock on an item of the World's own has returned, and a second one too
C10_Witness ==
    /\ phase = "connected"
    /\ last.op = "unlock" /\ last.result = "false"
    /\ Len(objs) = ObjectsIn(doc) + MaxUnlocks
    /\ \A p \in 1..Len(rooms) : rooms[p].lock = "locked"

====
